---- MODULE Spec2Model ----
(***************************************************************************)
(* Model of gpu-benchmark.cu: the device helper unpack_trit and the kernel *)
(* sparse_blind_rotation_kernel, run by one block of cooperating threads   *)
(* that share the accumulator s_acc and meet at __syncthreads() barriers.  *)
(*                                                                         *)
(* A machine word in memory is the sequence of its hexadecimal digits,     *)
(* most significant first.  Operations work on its bit vector (a function  *)
(* from bit positions to {0,1}), so that shifts, masks, two's-complement   *)
(* negation and the narrowing of a 64-bit value to a 32-bit int are        *)
(* computed at their real widths.                                          *)
(***************************************************************************)
EXTENDS Integers, Sequences, FiniteSets, TLC

VARIABLES
    \* ---- global memory (kernel arguments) ----
    d_acc,              \* int64_t d_acc[N]
    d_bk,               \* const uint32_t d_bk[]  (sequence of 32-bit words, 0-based via +1)
    d_nonzero_indices,  \* const int d_nonzero_indices[num_nonzero]
    d_lwe_a,            \* const int64_t d_lwe_a[num_nonzero]
    num_nonzero,        \* int num_nonzero
    \* ---- shared memory ----
    s_acc,              \* extern __shared__ int64_t s_acc[]
    \* ---- per-thread registers, indexed by tid ----
    pc,                 \* position of the thread in the kernel
    i,                  \* loop variable i of the loop the thread is in
    step,               \* loop variable step
    s_i,                \* decoded key trit of the current step
    rot,                \* rotation amount of the current step
    src_idx,            \* source index of this pass (lines 66-69)
    sign,               \* sign of this pass (lines 67-70)
    new_val,            \* value read in this pass, to be written after the barrier
    \* ---- observation of the run (never read by the kernel) ----
    acc0,               \* d_acc as it was when the kernel was launched
    inited,             \* indices of s_acc that have been written at least once
    epoch,              \* accesses to s_acc since the last barrier: <<tid, index, kind>>
    cur,                \* highest step any thread has begun (-1 before the first)
    old,                \* old[k]: s_acc as it was when the first thread began step k
    left,               \* left[k]: s_acc as it was when the last write of step k completed
    wlog,               \* wlog[k][j][t]: number of writes s_acc[j] by thread t in step k
    stale,              \* <<k, t, j>>: thread t read s_acc[j] in step k after a write of step k to j
    earlyread,          \* <<t, j>>: thread t read s_acc[j] before anyone had written it
    readStep,           \* per thread: highest step in which it has read s_acc (-1: none)
    stepsWritten,       \* per thread: number of steps whose writes it has all completed
    ldlog,              \* ldlog[j][t]: number of loads s_acc[j] = d_acc[j] by thread t
    wblog,              \* wblog[j][t]: number of write-backs d_acc[j] = s_acc[j] by thread t
    barriers,           \* per thread: the lines of the barriers it has passed, in order
    dlog,               \* accesses to d_acc: <<tid, index, kind, barriers passed before>>
    args0,              \* <<d_bk, d_nonzero_indices, d_lwe_a, num_nonzero>> at launch
    \* ---- state of the arithmetic specification (SpecArith) ----
    u_bk,               \* a packed key
    u_p,                \* a key position
    u_a,                \* a 64-bit rotation sample
    u_trit,             \* per thread: result of decoding position u_p of u_bk
    u_rot,              \* per thread: rotation amount computed from u_trit and u_a
    u_pc                \* per thread: "start", "decoded", "rotated"

kvars == <<d_acc, d_bk, d_nonzero_indices, d_lwe_a, num_nonzero, s_acc,
           pc, i, step, s_i, rot, src_idx, sign, new_val>>
gvars == <<acc0, inited, epoch, cur, old, left, wlog, stale, earlyread,
           readStep, stepsWritten, ldlog, wblog, barriers, dlog, args0>>
uvars == <<u_bk, u_p, u_a, u_trit, u_rot, u_pc>>
vars == <<kvars, gvars, uvars>>

(***************************************************************************)
(* Program constants.                                                      *)
(***************************************************************************)
N == 2048
PACKING_FACTOR == 16

(***************************************************************************)
(* Bounds of the kernel model: the block has blockDim threads and the      *)
(* polynomial has NK = blockDim * Passes coefficients, so that every loop  *)
(* "for (i = tid; i < N; i += blockDim.x)" makes Passes iterations in      *)
(* every thread, as N / THREADS_PER_BLOCK = 8 does in main.                *)
(***************************************************************************)
blockDim == 2
Passes == 2
MaxSteps == 2
NK == blockDim * Passes

Threads == 0 .. (blockDim - 1)
Idx == 0 .. (NK - 1)

(***************************************************************************)
(* Bit vectors.                                                            *)
(***************************************************************************)
\* the w-bit vector whose one-bits are the positions in S
BitsOf(S, w) == [k \in 0 .. (w - 1) |-> IF k \in S THEN 1 ELSE 0]

\* the w-bit vector of the word with hexadecimal digits h, most significant first
FromHex(h, w) ==
    [k \in 0 .. (w - 1) |-> (h[Len(h) - (k \div 4)] \div (2 ^ (k % 4))) % 2]

\* the value of the low m bits of bv as a natural number (m <= 31)
RECURSIVE LowNat(_, _)
LowNat(bv, m) ==
    IF m = 0 THEN 0
    ELSE LowNat(bv, m - 1) + (IF bv[m - 1] = 1 THEN 2 ^ (m - 1) ELSE 0)

\* uint32_t x & y
And32(x, y) == [k \in 0 .. 31 |-> x[k] * y[k]]
\* uint32_t x << n, 0 <= n < 32
Shl32(x, n) == [k \in 0 .. 31 |-> IF k >= n THEN x[k - n] ELSE 0]
\* uint32_t x >> n, 0 <= n < 32 (logical shift)
Shr32(x, n) == [k \in 0 .. 31 |-> IF k + n <= 31 THEN x[k + n] ELSE 0]
\* a uint32_t that fits 31 bits, as a number
Nat32(x) == LowNat(x, 31)

\* (int8_t) of a 32-bit unsigned value: the low 8 bits, two's complement
Int8Of(x) == LowNat(x, 7) - (IF x[7] = 1 THEN 128 ELSE 0)

\* unary minus on an int64_t, as the device computes it: two's complement,
\* invert and add one, wrapping at INT64_MIN
RECURSIVE CarryIn(_, _)
CarryIn(x, k) ==
    \* carry into bit k of (~x + 1)
    IF k = 0 THEN 1
    ELSE IF CarryIn(x, k - 1) = 1 /\ x[k - 1] = 0 THEN 1 ELSE 0
Neg64(x) == [k \in 0 .. 63 |-> ((1 - x[k]) + CarryIn(x, k)) % 2]

\* (int) of an int64_t: the low 32 bits, two's complement
IntOf64(x) ==
    IF x[31] = 1 THEN (LowNat(x, 31) - 2 ^ 30) - 2 ^ 30 ELSE LowNat(x, 31)

\* C++ a % n for n > 0: the remainder has the sign of a
CRem(a, n) ==
    IF a >= 0 THEN a % n
    ELSE IF a % n = 0 THEN 0 ELSE (a % n) - n

(***************************************************************************)
(* unpack_trit                                                             *)
(***************************************************************************)
Three32 == BitsOf({0, 1}, 32)

unpack_trit_shift_by_index(packed_container, index) ==
    LET mask == Shl32(Three32, index)
        extracted == Shr32(And32(FromHex(packed_container, 32), mask), index)
    IN  IF Nat32(extracted) = 2 THEN -1 ELSE Int8Of(extracted)

unpack_trit(packed_container, index) ==
    LET mask == Shl32(Three32, index * 2)
        extracted == Shr32(And32(FromHex(packed_container, 32), mask), index * 2)
    IN  IF Nat32(extracted) = 2 THEN -1 ELSE Int8Of(extracted)

\* lines 54-57: the trit of key position lwe_idx of the packed key bk
KeyTrit(bk, lwe_idx) ==
    LET packed_idx == lwe_idx \div PACKING_FACTOR
        bit_offset == lwe_idx % PACKING_FACTOR
        packed_key == bk[packed_idx + 1]
    IN  unpack_trit(packed_key, bit_offset)

(***************************************************************************)
(* Rotation amount, lines 60-62, for polynomial degree n.                  *)
(***************************************************************************)
RotAmountNoFix(trit, a_i, n) ==
    LET r0 == IntOf64(IF trit = 1 THEN Neg64(FromHex(a_i, 64)) ELSE FromHex(a_i, 64))
    IN  CRem(r0, n)

RotAmount(trit, a_i, n) ==
    LET r0 == IntOf64(IF trit = 1 THEN Neg64(FromHex(a_i, 64)) ELSE FromHex(a_i, 64))
        r1 == CRem(r0, n)
    IN  IF r1 < 0 THEN r1 + n ELSE r1

(***************************************************************************)
(* Inputs of the kernel model.                                             *)
(***************************************************************************)

\* key positions 0: +1 (code 1), 1: -1 (code 2), 18: reserved code 3,
\* 31: -1 (code 2); every other position of the two words holds code 0
KernelKey == << <<0, 0, 0, 0, 0, 0, 0, 9>>, <<8, 0, 0, 0, 0, 0, 3, 0>> >>

\* rotation samples 1, 2, -1 and INT64_MIN
LweOne == <<0, 0, 0, 0, 0, 0, 0, 0, 0, 0, 0, 0, 0, 0, 0, 1>>
LweTwo == <<0, 0, 0, 0, 0, 0, 0, 0, 0, 0, 0, 0, 0, 0, 0, 2>>
LweMinusOne == <<15, 15, 15, 15, 15, 15, 15, 15, 15, 15, 15, 15, 15, 15, 15, 15>>
LweMin == <<8, 0, 0, 0, 0, 0, 0, 0, 0, 0, 0, 0, 0, 0, 0, 0>>
LweSamples == {LweOne, LweTwo, LweMinusOne, LweMin}

\* what one step may be given: <<d_nonzero_indices[step], d_lwe_a[step]>>
StepInputs ==
    { <<0, LweOne>>, <<0, LweTwo>>, <<0, LweMinusOne>>,
      <<31, LweOne>>, <<31, LweMin>>, <<18, LweMinusOne>> }

\* accumulators at launch: pairwise distinct coefficients, the harness's
\* std::vector<int64_t> h_acc(N, 1), and what a launch on it with rotation
\* amount 1 leaves in d_acc for the harness's next launch (line 151)
InitAccs ==
    { [j \in Idx |-> j + 1], [j \in Idx |-> 1],
      [j \in Idx |-> IF j < 1 THEN -1 ELSE 1] }

\* what uninitialized shared memory may hold
Garbage == {0, -77}

Steps == 0 .. (MaxSteps - 1)
NoAcc == << >>

(***************************************************************************)
(* The kernel.                                                             *)
(***************************************************************************)
\* lines 50-62, as every thread computes them in step k
StepTrit(k) == KeyTrit(d_bk, d_nonzero_indices[k + 1])
StepRot(k) == RotAmount(StepTrit(k), d_lwe_a[k + 1], NK)

\* lines 66-71: the source index the rotation loop reads for output index j
SrcIdxNoWrap(j, r) == j - r
SrcIdx(j, r) == IF j - r < 0 THEN (j - r) + NK ELSE j - r

\* lines 67-71: the sign the rotation loop applies for output index j
SignOfLeq(j, r) == IF j - r <= 0 THEN -1 ELSE 1
SignOf(j, r) == IF j - r < 0 THEN -1 ELSE 1

\* lines 73-74: the rotated value, from the value v read at the source index
Signed(sg, v) == IF sg = -1 THEN -v ELSE v

\* lines 76-77: "Simple update for test": new_val = rotated_val
NewValScaled(rotated_val) == 2 * rotated_val
NewVal(rotated_val) == rotated_val

\* lines 66-77: the value stored for output index j, read from accumulator acc
RotatedVal(acc, j, r) == NewVal(Signed(SignOf(j, r), acc[SrcIdx(j, r)]))

\* the loop step "i += blockDim.x" of lines 43, 65 and 85
NextIByOne(iv) == iv + 1
NextI(iv) == iv + blockDim

\* __syncthreads(): the barrier opens when every thread of the block waits at it
BarrierOpenAny == \E t \in Threads : pc[t] \in {"bar46", "bar78", "bar80"}
BarrierOpen == \A t \in Threads : pc[t] \in {"bar46", "bar78", "bar80"}

Init ==
    /\ acc0 \in InitAccs
    /\ d_acc = acc0
    /\ d_bk = KernelKey
    /\ num_nonzero \in 0 .. MaxSteps
    /\ \E inp \in [1 .. num_nonzero -> StepInputs] :
          /\ d_nonzero_indices = [k \in 1 .. num_nonzero |-> inp[k][1]]
          /\ d_lwe_a = [k \in 1 .. num_nonzero |-> inp[k][2]]
    /\ \E g \in Garbage : s_acc = [j \in Idx |-> g]
    /\ i = [t \in Threads |-> t]
    /\ pc = [t \in Threads |-> IF t < NK THEN "load" ELSE "bar46"]
    /\ step = [t \in Threads |-> 0]
    /\ s_i = [t \in Threads |-> 0]
    /\ rot = [t \in Threads |-> 0]
    /\ src_idx = [t \in Threads |-> 0]
    /\ sign = [t \in Threads |-> 1]
    /\ new_val = [t \in Threads |-> 0]
    /\ inited = {}
    /\ epoch = {}
    /\ cur = -1
    /\ old = [k \in Steps |-> NoAcc]
    /\ left = [k \in Steps |-> NoAcc]
    /\ wlog = [k \in Steps |-> [j \in Idx |-> [t \in Threads |-> 0]]]
    /\ stale = {}
    /\ earlyread = {}
    /\ readStep = [t \in Threads |-> -1]
    /\ stepsWritten = [t \in Threads |-> 0]
    /\ ldlog = [j \in Idx |-> [t \in Threads |-> 0]]
    /\ wblog = [j \in Idx |-> [t \in Threads |-> 0]]
    /\ barriers = [t \in Threads |-> << >>]
    /\ dlog = {}
    /\ args0 = <<d_bk, d_nonzero_indices, d_lwe_a, num_nonzero>>
    /\ u_bk = KernelKey
    /\ u_p = 0
    /\ u_a = <<0, 0, 0, 0, 0, 0, 0, 0, 0, 0, 0, 0, 0, 0, 0, 0>>
    /\ u_trit = [t \in Threads |-> 0]
    /\ u_rot = [t \in Threads |-> 0]
    /\ u_pc = [t \in Threads |-> "idle"]

\* lines 43-45: one iteration of the load loop
Load(t) ==
    /\ pc[t] = "load"
    /\ s_acc' = [s_acc EXCEPT ![i[t]] = d_acc[i[t]]]
    /\ i' = [i EXCEPT ![t] = NextI(i[t])]
    /\ pc' = [pc EXCEPT ![t] = IF NextI(i[t]) < NK THEN "load" ELSE "bar46"]
    /\ inited' = inited \cup {i[t]}
    /\ epoch' = epoch \cup {<<t, i[t], "w">>}
    /\ ldlog' = [ldlog EXCEPT ![i[t]][t] = @ + 1]
    /\ dlog' = dlog \cup {<<t, i[t], "r", Len(barriers[t])>>}
    /\ UNCHANGED <<d_acc, d_bk, d_nonzero_indices, d_lwe_a, num_nonzero,
                   step, s_i, rot, src_idx, sign, new_val>>
    /\ UNCHANGED <<acc0, cur, old, left, wlog, stale, earlyread, readStep,
                   stepsWritten, wblog, barriers, args0>>
    /\ UNCHANGED uvars

\* lines 49-62: the test of the step loop and, when it passes, the decoding of
\* the key trit and the computation of the rotation amount; line 65 sets i = tid.
\* When the test fails the thread goes on to the write-back loop (line 85).
StepBegin(t) ==
    /\ pc[t] = "loop"
    /\ IF step[t] < num_nonzero
       THEN /\ s_i' = [s_i EXCEPT ![t] = StepTrit(step[t])]
            /\ rot' = [rot EXCEPT ![t] = StepRot(step[t])]
            /\ i' = [i EXCEPT ![t] = t]
            /\ pc' = [pc EXCEPT ![t] = "read"]
            /\ cur' = IF step[t] > cur THEN step[t] ELSE cur
            /\ old' = IF step[t] > cur THEN [old EXCEPT ![step[t]] = s_acc] ELSE old
       ELSE /\ i' = [i EXCEPT ![t] = t]
            /\ pc' = [pc EXCEPT ![t] = "wb"]
            /\ UNCHANGED <<s_i, rot, cur, old>>
    /\ UNCHANGED <<d_acc, d_bk, d_nonzero_indices, d_lwe_a, num_nonzero, s_acc,
                   step, src_idx, sign, new_val>>
    /\ UNCHANGED <<acc0, inited, epoch, left, wlog, stale, earlyread, readStep,
                   stepsWritten, ldlog, wblog, barriers, dlog, args0>>
    /\ UNCHANGED uvars

\* lines 66-77: compute the source index and sign, read s_acc[src_idx], keep the
\* value in new_val and arrive at the barrier of line 78
Read(t) ==
    /\ pc[t] = "read"
    /\ LET src == SrcIdx(i[t], rot[t])
           sg == SignOf(i[t], rot[t])
       IN  /\ src_idx' = [src_idx EXCEPT ![t] = src]
           /\ sign' = [sign EXCEPT ![t] = sg]
           \* a read outside s_acc[0 .. N-1] may return anything
           /\ \E v \in (IF src \in Idx THEN {s_acc[src]} ELSE Garbage) :
                 new_val' = [new_val EXCEPT ![t] = NewVal(Signed(sg, v))]
           /\ epoch' = epoch \cup {<<t, src, "r">>}
           /\ stale' = IF src \in Idx /\ \E u \in Threads : wlog[step[t]][src][u] > 0
                       THEN stale \cup {<<step[t], t, src>>} ELSE stale
           /\ earlyread' = IF src \in inited THEN earlyread
                           ELSE earlyread \cup {<<t, src>>}
    /\ readStep' = [readStep EXCEPT ![t] = step[t]]
    /\ pc' = [pc EXCEPT ![t] = "bar78"]
    /\ UNCHANGED <<d_acc, d_bk, d_nonzero_indices, d_lwe_a, num_nonzero, s_acc,
                   i, step, s_i, rot>>
    /\ UNCHANGED <<acc0, inited, cur, old, left, wlog, stepsWritten, ldlog, wblog,
                   barriers, dlog, args0>>
    /\ UNCHANGED uvars

\* line 79: s_acc[i] = new_val, then arrive at the barrier of line 80
Write(t) ==
    /\ pc[t] = "write"
    /\ s_acc' = [s_acc EXCEPT ![i[t]] = new_val[t]]
    /\ pc' = [pc EXCEPT ![t] = "bar80"]
    /\ inited' = inited \cup {i[t]}
    /\ epoch' = epoch \cup {<<t, i[t], "w">>}
    /\ wlog' = [wlog EXCEPT ![step[t]][i[t]][t] = @ + 1]
    /\ stepsWritten' = [stepsWritten EXCEPT ![t] =
                          IF NextI(i[t]) < NK THEN @ ELSE step[t] + 1]
    /\ left' = IF \A u \in Threads : stepsWritten'[u] >= step[t] + 1
               THEN [left EXCEPT ![step[t]] = s_acc'] ELSE left
    /\ UNCHANGED <<d_acc, d_bk, d_nonzero_indices, d_lwe_a, num_nonzero,
                   i, step, s_i, rot, src_idx, sign, new_val>>
    /\ UNCHANGED <<acc0, cur, old, stale, earlyread, readStep, ldlog, wblog,
                   barriers, dlog, args0>>
    /\ UNCHANGED uvars

\* where a thread released from a barrier continues
AfterBarrierPc(t) ==
    CASE pc[t] = "bar46" -> "loop"
      [] pc[t] = "bar78" -> "write"
      [] pc[t] = "bar80" -> IF NextI(i[t]) < NK THEN "read" ELSE "loop"
      [] OTHER -> pc[t]

\* the source line of the barrier thread t waits at
BarrierLine(t) ==
    CASE pc[t] = "bar46" -> 46
      [] pc[t] = "bar78" -> 78
      [] pc[t] = "bar80" -> 80
      [] OTHER -> 0

\* __syncthreads() (lines 46, 78, 80): when every thread of the block waits at a
\* barrier, all are released.  Released from line 80 a thread makes the loop
\* step i += blockDim.x and, when the rotation loop ends, step++.
Sync ==
    /\ BarrierOpen
    /\ pc' = [t \in Threads |-> AfterBarrierPc(t)]
    /\ i' = [t \in Threads |-> IF pc[t] = "bar80" THEN NextI(i[t]) ELSE i[t]]
    /\ step' = [t \in Threads |->
                  IF pc[t] = "bar80" /\ ~(NextI(i[t]) < NK)
                  THEN step[t] + 1 ELSE step[t]]
    /\ epoch' = {}
    /\ barriers' = [t \in Threads |->
                      IF pc[t] \in {"bar46", "bar78", "bar80"}
                      THEN Append(barriers[t], BarrierLine(t)) ELSE barriers[t]]
    /\ UNCHANGED <<d_acc, d_bk, d_nonzero_indices, d_lwe_a, num_nonzero, s_acc,
                   s_i, rot, src_idx, sign, new_val>>
    /\ UNCHANGED <<acc0, inited, cur, old, left, wlog, stale, earlyread, readStep,
                   stepsWritten, ldlog, wblog, dlog, args0>>
    /\ UNCHANGED uvars

\* lines 85-87: one iteration of the write-back loop
WriteBack(t) ==
    /\ pc[t] = "wb"
    /\ d_acc' = [d_acc EXCEPT ![i[t]] = s_acc[i[t]]]
    /\ i' = [i EXCEPT ![t] = NextI(i[t])]
    /\ pc' = [pc EXCEPT ![t] = IF NextI(i[t]) < NK THEN "wb" ELSE "done"]
    /\ epoch' = epoch \cup {<<t, i[t], "r">>}
    /\ earlyread' = IF i[t] \in inited THEN earlyread
                    ELSE earlyread \cup {<<t, i[t]>>}
    /\ wblog' = [wblog EXCEPT ![i[t]][t] = @ + 1]
    /\ dlog' = dlog \cup {<<t, i[t], "w", Len(barriers[t])>>}
    /\ UNCHANGED <<d_bk, d_nonzero_indices, d_lwe_a, num_nonzero, s_acc,
                   step, s_i, rot, src_idx, sign, new_val>>
    /\ UNCHANGED <<acc0, inited, cur, old, left, wlog, stale, readStep,
                   stepsWritten, ldlog, barriers, args0>>
    /\ UNCHANGED uvars

Next ==
    \/ \E t \in Threads : Load(t)
    \/ \E t \in Threads : StepBegin(t)
    \/ \E t \in Threads : Read(t)
    \/ \E t \in Threads : Write(t)
    \/ Sync
    \/ \E t \in Threads : WriteBack(t)

Spec == Init /\ [][Next]_vars

AllDone == \A t \in Threads : pc[t] = "done"

(***************************************************************************)
(* The kernel's result as a function of its inputs: the rotation loop of   *)
(* one step run pass by pass, every pass reading all its sources (line 73) *)
(* before the barrier of line 78 and writing its outputs (line 79) after.  *)
(***************************************************************************)
PassResult(acc, r, p) ==
    [j \in Idx |-> IF j \div blockDim = p THEN RotatedVal(acc, j, r) ELSE acc[j]]

RECURSIVE StepFrom(_, _, _)
StepFrom(acc, r, p) ==
    IF p >= Passes THEN acc ELSE StepFrom(PassResult(acc, r, p), r, p + 1)

\* lines 65-81 for one step of rotation amount r
OneStep(acc, r) == StepFrom(acc, r, 0)

\* lines 41-87 with one active position whose reduced rotation amount is r
SingleStepKernel(acc, r) == OneStep(acc, r)

(***************************************************************************)
(* SpecArith: lines 50-62 of one step, computed by every thread of the     *)
(* block from the same key, position and rotation sample, at the widths of *)
(* the program (uint32_t key words, int64_t samples, int rot, N = 2048).   *)
(***************************************************************************)
KeySamples ==
    { << <<10, 10, 10, 10, 10, 10, 10, 10>>, <<10, 10, 10, 10, 10, 10, 10, 10>> >>,
      KernelKey,
      << <<1, 2, 3, 4, 5, 6, 7, 8>>, <<9, 10, 11, 12, 13, 14, 15, 0>> >>,
      << <<15, 15, 15, 15, 15, 15, 15, 15>>, <<5, 5, 5, 5, 5, 5, 5, 5>> >>,
      << <<6, 12, 1, 11, 2, 13, 8, 9>>, <<12, 9, 6, 3, 9, 6, 3, 12>> >> }

ArithSamples ==
    LweSamples \cup
    { <<0, 0, 0, 0, 0, 0, 0, 0, 0, 0, 0, 0, 0, 0, 0, 0>>,
      <<0, 0, 0, 0, 0, 0, 0, 0, 0, 0, 0, 0, 0, 7, 15, 15>>,
      <<0, 0, 0, 0, 0, 0, 0, 0, 0, 0, 0, 0, 0, 8, 0, 0>>,
      <<0, 0, 0, 0, 0, 0, 0, 0, 0, 0, 0, 0, 0, 5, 6, 7>>,
      <<0, 0, 0, 0, 0, 0, 0, 0, 7, 15, 15, 15, 15, 15, 15, 15>>,
      <<0, 0, 0, 0, 0, 0, 0, 0, 8, 0, 0, 0, 0, 0, 0, 0>>,
      <<0, 0, 0, 0, 0, 0, 0, 0, 8, 0, 0, 0, 0, 0, 0, 3>>,
      <<0, 0, 0, 0, 0, 0, 0, 0, 15, 15, 15, 15, 15, 15, 15, 15>>,
      <<0, 0, 0, 0, 0, 0, 0, 1, 0, 0, 0, 0, 0, 0, 0, 5>>,
      <<7, 15, 15, 15, 15, 15, 15, 15, 15, 15, 15, 15, 15, 15, 15, 15>>,
      <<15, 15, 15, 15, 15, 15, 15, 15, 15, 15, 15, 15, 15, 7, 15, 15>>,
      <<15, 15, 15, 15, 15, 15, 15, 15, 7, 15, 15, 15, 15, 15, 15, 14>>,
      <<1, 2, 3, 4, 5, 6, 7, 8, 9, 10, 11, 12, 13, 14, 15, 0>> }

\* the kernel itself is not running in SpecArith
KernelIdle ==
    /\ acc0 = [j \in Idx |-> 1]
    /\ d_acc = acc0
    /\ d_bk = KernelKey
    /\ num_nonzero = 0
    /\ d_nonzero_indices = << >>
    /\ d_lwe_a = << >>
    /\ s_acc = [j \in Idx |-> 0]
    /\ i = [t \in Threads |-> t]
    /\ pc = [t \in Threads |-> "idle"]
    /\ step = [t \in Threads |-> 0]
    /\ s_i = [t \in Threads |-> 0]
    /\ rot = [t \in Threads |-> 0]
    /\ src_idx = [t \in Threads |-> 0]
    /\ sign = [t \in Threads |-> 1]
    /\ new_val = [t \in Threads |-> 0]
    /\ inited = {}
    /\ epoch = {}
    /\ cur = -1
    /\ old = [k \in Steps |-> NoAcc]
    /\ left = [k \in Steps |-> NoAcc]
    /\ wlog = [k \in Steps |-> [j \in Idx |-> [t \in Threads |-> 0]]]
    /\ stale = {}
    /\ earlyread = {}
    /\ readStep = [t \in Threads |-> -1]
    /\ stepsWritten = [t \in Threads |-> 0]
    /\ ldlog = [j \in Idx |-> [t \in Threads |-> 0]]
    /\ wblog = [j \in Idx |-> [t \in Threads |-> 0]]
    /\ barriers = [t \in Threads |-> << >>]
    /\ dlog = {}
    /\ args0 = <<d_bk, d_nonzero_indices, d_lwe_a, num_nonzero>>

InitArith ==
    /\ KernelIdle
    /\ u_bk \in KeySamples
    /\ u_p \in 0 .. (2 * PACKING_FACTOR - 1)
    /\ u_a \in ArithSamples
    /\ u_trit = [t \in Threads |-> 0]
    /\ u_rot = [t \in Threads |-> 0]
    /\ u_pc = [t \in Threads |-> "start"]

\* lines 50-57: thread t decodes the key trit of position u_p
Decode(t) ==
    /\ u_pc[t] = "start"
    /\ u_trit' = [u_trit EXCEPT ![t] = KeyTrit(u_bk, u_p)]
    /\ u_pc' = [u_pc EXCEPT ![t] = "decoded"]
    /\ UNCHANGED <<u_bk, u_p, u_a, u_rot>>
    /\ UNCHANGED <<kvars, gvars>>

\* lines 60-62: thread t computes the rotation amount
Rotate(t) ==
    /\ u_pc[t] = "decoded"
    /\ u_rot' = [u_rot EXCEPT ![t] = RotAmount(u_trit[t], u_a, N)]
    /\ u_pc' = [u_pc EXCEPT ![t] = "rotated"]
    /\ UNCHANGED <<u_bk, u_p, u_a, u_trit>>
    /\ UNCHANGED <<kvars, gvars>>

NextArith ==
    \/ \E t \in Threads : Decode(t)
    \/ \E t \in Threads : Rotate(t)

SpecArith == InitArith /\ [][NextArith]_vars

(***************************************************************************)
(* Vocabulary of the properties.                                           *)
(***************************************************************************)
\* every thread has completed all its writes of step k
StepDone(k) == \A u \in Threads : stepsWritten[u] > k
\* some thread has begun step k
StepBegun(k) == k <= cur
\* thread t is past the barrier of line 46
PastLoad(t) == pc[t] \notin {"load", "bar46"}
\* thread t is inside the rotation loop (lines 65-81)
InRotation(t) == pc[t] \in {"read", "bar78", "write", "bar80"}

\* the negacyclic rotation of acc by r, 0 <= r < NK: coefficient j comes from
\* coefficient (j - r) mod NK, negated when j - r wrapped below 0
Negacyclic(acc, r) ==
    [j \in Idx |-> IF j - r < 0 THEN -acc[(j - r) % NK] ELSE acc[(j - r) % NK]]

Negated(acc) == [j \in Idx |-> -acc[j]]

\* the 2-bit field of key position p, read bit by bit
FieldCode(bk, p) ==
    LET w == FromHex(bk[(p \div 16) + 1], 32)
        f == p % 16
    IN  w[2 * f] + 2 * w[2 * f + 1]

\* C1: when a step completes, s_acc[j] = old[(j - rot) mod N], negated exactly
\* when j - rot < 0, old being s_acc at the start of the step
C1_StepIsNegacyclicRotation ==
    \A k \in Steps :
        (StepBegun(k) /\ StepDone(k)) => left[k] = Negacyclic(old[k], StepRot(k))

\* C2: within one step no thread reads s_acc[j] (line 73) after a write
\* s_acc[j] = new_val (line 79) of the same step
C2_NoReadOfNewValue == stale = {}

\* C6: two steps of amounts r1 then r2 leave d_acc equal to the result of a
\* single step of amount (r1 + r2) mod N, negated exactly when r1 + r2 >= N
C6_Composition ==
    (AllDone /\ num_nonzero = 2) =>
        LET r1 == StepRot(0)
            r2 == StepRot(1)
            one == SingleStepKernel(acc0, (r1 + r2) % NK)
        IN  d_acc = IF r1 + r2 >= NK THEN Negated(one) ELSE one

\* C3: between two consecutive barriers no two threads access the same s_acc
\* location unless both accesses are reads
C3_NoDataRace ==
    \A e1 \in epoch : \A e2 \in epoch :
        (e1[1] # e2[1] /\ e1[2] = e2[2]) => (e1[3] = "r" /\ e2[3] = "r")

\* two threads have written s_acc between the same two barriers of a step
C3_Witness ==
    /\ cur >= 0
    /\ \E e1 \in epoch : \E e2 \in epoch :
          e1[1] # e2[1] /\ e1[3] = "w" /\ e2[3] = "w"

\* C4: no thread reads s_acc in step k+1 before every thread has completed all
\* its writes of step k, and step k+1 starts from the accumulator step k left
C4_StepsStrictlyOrdered ==
    /\ \A t \in Threads : \A u \in Threads : readStep[t] <= stepsWritten[u]
    /\ \A k \in Steps : (k >= 1 /\ StepBegun(k)) => old[k] = left[k - 1]

\* a thread has read s_acc in the second step
C4_Witness == cur = 1 /\ \E t \in Threads : readStep[t] = 1 /\ pc[t] = "bar78"

\* the value of the int64_t with hexadecimal digits a_i, modulo n
\* (two's complement: bits 0..62 weigh 2^k, bit 63 weighs -2^63)
RECURSIVE PowMod(_, _)
PowMod(k, n) == IF k = 0 THEN 1 % n ELSE (2 * PowMod(k - 1, n)) % n
RECURSIVE HornerMod(_, _, _)
HornerMod(bv, k, n) ==
    \* (sum of bv[m] * 2^(m - k) for m in k..62) mod n
    IF k > 62 THEN 0 ELSE (2 * HornerMod(bv, k + 1, n) + bv[k]) % n
SignedMod(a_i, n) ==
    LET bv == FromHex(a_i, 64)
    IN  (HornerMod(bv, 0, n) + (n - bv[63] * PowMod(63, n))) % n

\* C5: the rotation amount is the value in [0, N) congruent to -a modulo N for
\* key trit +1 and to +a for key trit -1, and is the same in all threads
C5_RotationAmount ==
    (\E t \in Threads : u_pc[t] = "rotated") =>
        LET a == SignedMod(u_a, N)
        IN  \A t \in Threads :
                (u_pc[t] = "rotated" /\ u_trit[t] \in {1, -1}) =>
                    /\ u_rot[t] \in 0 .. (N - 1)
                    /\ (u_trit[t] = 1) => ((u_rot[t] + a) % N = 0)
                    /\ (u_trit[t] = -1) => (u_rot[t] = a)
                    /\ \A u \in Threads :
                          (u_pc[u] = "rotated") => (u_rot[u] = u_rot[t])

\* every thread has computed a nonzero amount for trit +1 from a sample whose
\* bits above the low 32 are not all zero
C5_Witness ==
    /\ \A t \in Threads : u_pc[t] = "rotated" /\ u_trit[t] = 1 /\ u_rot[t] > 0
    /\ \E k \in 32 .. 63 : FromHex(u_a, 64)[k] = 1

\* C7: a key field holding the reserved code 3 is rejected: unpack_trit returns
\* nothing outside {-1, 0, +1} and no thread rotates on a code-3 field
C7_ReservedCodeRejected ==
    \A t \in Threads :
        InRotation(t) =>
            /\ s_i[t] \in {-1, 0, 1}
            /\ FieldCode(d_bk, d_nonzero_indices[step[t] + 1]) # 3

\* C8: key position p is decoded from field p % 16 of word p / 16; field values
\* 0, 1, 2 decode to 0, +1, -1 whatever the other bits of the word are
C8_CanonicalDecode ==
    \A t \in Threads :
        (u_pc[t] # "start") =>
            LET c == FieldCode(u_bk, u_p)
            IN  /\ (c = 0) => (u_trit[t] = 0)
                /\ (c = 1) => (u_trit[t] = 1)
                /\ (c = 2) => (u_trit[t] = -1)

\* a field of the second word, in a word with other nonzero fields, decoded -1
C8_Witness ==
    /\ u_p > 16
    /\ FieldCode(u_bk, u_p) = 2
    /\ FieldCode(u_bk, u_p - 1) # 0
    /\ \A t \in Threads : u_pc[t] = "decoded" /\ u_trit[t] = -1

\* thread t has read s_acc in the rotation loop or the write-back, or has
\* written a rotated value
HasUsedAcc(t) ==
    \/ readStep[t] >= 0
    \/ \E j \in Idx : wblog[j][t] > 0
    \/ \E k \in Steps : \E j \in Idx : wlog[k][j][t] > 0

\* C9: no thread reads s_acc in the rotation loop or the write-back, or writes
\* a rotated value, before every thread has finished its share of the load;
\* every value read from s_acc was written before
C9_LoadBarrier ==
    /\ earlyread = {}
    /\ \A t \in Threads :
          HasUsedAcc(t) => /\ \A u \in Threads : pc[u] # "load"
                           /\ \A j \in Idx : ldlog[j][j % blockDim] > 0

\* a thread has read s_acc in the first step while the other has not yet
C9_Witness ==
    \E t \in Threads : \E u \in Threads :
        readStep[t] = 0 /\ readStep[u] = -1 /\ pc[u] = "loop"

\* C10: in every step every index is written exactly once, by thread
\* index mod blockDim; likewise for the load and for the write-back
C10_DisjointCompleteOwnership ==
    /\ \A k \in Steps : \A j \in Idx : \A t \in Threads :
          (wlog[k][j][t] > 0) => (t = j % blockDim /\ wlog[k][j][t] = 1)
    /\ \A k \in Steps : StepDone(k) => \A j \in Idx : wlog[k][j][j % blockDim] = 1
    /\ \A j \in Idx : \A t \in Threads :
          (ldlog[j][t] > 0) => (t = j % blockDim /\ ldlog[j][t] = 1)
    /\ (\E t \in Threads : PastLoad(t)) => \A j \in Idx : ldlog[j][j % blockDim] = 1
    /\ \A j \in Idx : \A t \in Threads :
          (wblog[j][t] > 0) => (t = j % blockDim /\ wblog[j][t] = 1)
    /\ AllDone => \A j \in Idx : wblog[j][j % blockDim] = 1

\* the kernel has finished after two complete steps
C10_Witness == AllDone /\ StepDone(1)

\* the number of barriers one thread executes in a launch with the given inputs
BarrierCount == 1 + 2 * Passes * num_nonzero

AtBarrier(t) == pc[t] \in {"bar46", "bar78", "bar80"}

\* thread t is neither waiting at a barrier nor returned
Runnable(t) == pc[t] \in {"load", "loop", "read", "write", "wb"}
\* some step of the kernel is possible: a thread can run or the barrier opens
CanStep == (\E t \in Threads : Runnable(t)) \/ BarrierOpen

\* all threads have passed the same barriers in the same order; a thread past
\* the step loop has passed exactly BarrierCount of them; no thread waits at a
\* barrier that another thread, already in the write-back, will never reach;
\* and the kernel can always go on until every thread has returned
C11_Uniform ==
    /\ \A t \in Threads : \A u \in Threads : barriers[t] = barriers[u]
    /\ \A t \in Threads : Len(barriers[t]) <= BarrierCount
    /\ \A t \in Threads :
          (pc[t] \in {"wb", "done"}) => (Len(barriers[t]) = BarrierCount)
    /\ \A t \in Threads : \A u \in Threads :
          AtBarrier(t) => (pc[u] \notin {"wb", "done"} /\ (AtBarrier(u) => pc[u] = pc[t]))
    /\ AllDone \/ CanStep

\* how far thread t has come: its position in the order load loop, barrier of
\* line 46, the steps (loop head, then read, barrier, write, barrier per pass),
\* write-back loop, return
StepLength == 1 + 4 * Passes
PassOf(t) == (i[t] - t) \div blockDim
InPass(t) ==
    CASE pc[t] = "read" -> 1
      [] pc[t] = "bar78" -> 2
      [] pc[t] = "write" -> 3
      [] pc[t] = "bar80" -> 4
      [] OTHER -> 0
Progress(t) ==
    CASE pc[t] = "load" -> PassOf(t)
      [] pc[t] = "bar46" -> Passes
      [] pc[t] = "loop" -> Passes + 1 + step[t] * StepLength
      [] InRotation(t) -> Passes + 1 + step[t] * StepLength + 4 * PassOf(t) + InPass(t)
      [] pc[t] = "wb" -> Passes + 2 + num_nonzero * StepLength + PassOf(t)
      [] pc[t] = "done" -> 2 * Passes + 2 + num_nonzero * StepLength
      [] OTHER -> 0
RECURSIVE ProgressUpTo(_)
ProgressUpTo(t) == IF t < 0 THEN 0 ELSE Progress(t) + ProgressUpTo(t - 1)
TotalProgress == ProgressUpTo(blockDim - 1)

\* C11: every thread executes the same 1 + 2 * (N / blockDim) * num_nonzero
\* barriers in the same order, none is left waiting, and every thread
\* finishes the write-back: until all have returned a step is always possible,
\* and every step brings the block closer to the end
C11_BarrierUniformityAndTermination ==
    /\ [](C11_Uniform)
    /\ [][TotalProgress' > TotalProgress]_vars

\* every thread has returned after two steps, each having passed all barriers
C11_Witness ==
    /\ AllDone
    /\ num_nonzero = 2
    /\ \A t \in Threads : Len(barriers[t]) = BarrierCount /\ barriers[t][1] = 46

\* ---------------------------------------------------------------------------
\* C12
\* ---------------------------------------------------------------------------

\* lines 49-82 from step k on: the steps' in-place rotations, one after another
RECURSIVE StepsFrom(_, _)
StepsFrom(acc, k) ==
    IF k >= num_nonzero THEN acc ELSE StepsFrom(OneStep(acc, StepRot(k)), k + 1)

\* lines 41-87: what the launch leaves in d_acc, as a function of its arguments
KernelResult(acc) == StepsFrom(acc, 0)

\* C12: the final contents of d_acc are determined by the launch's arguments
\* alone: whatever the order in which the threads ran between the barriers,
\* when all threads have returned d_acc holds the same array, the one the
\* steps' in-place rotations give when they are applied in step order; what a
\* thread has written back when it returns is already its part of that array.
C12_DeterministicResult ==
    /\ AllDone => (d_acc = KernelResult(acc0))
    /\ (\E t \in Threads : pc[t] = "done") =>
          LET result == KernelResult(acc0)
          IN  \A t \in Threads : \A j \in Idx :
                 (pc[t] = "done" /\ wblog[j][t] > 0) => (d_acc[j] = result[j])

\* a launch of two steps with non-zero rotation amounts on distinct values,
\* whose result differs from its input, with every thread returned
C12_Witness ==
    /\ AllDone
    /\ num_nonzero = 2
    /\ \A k \in 0 .. 1 : StepRot(k) # 0
    /\ acc0 = [j \in Idx |-> j + 1]
    /\ d_acc # acc0
    /\ d_acc = KernelResult(acc0)

\* ---------------------------------------------------------------------------
\* C13
\* ---------------------------------------------------------------------------

\* thread t has executed lines 66-73 for output index i[t] and not yet left the
\* iteration
HasRead(t) == pc[t] \in {"bar78", "write", "bar80"}

\* C13: with the rotation amount in [0, N), the index used to read s_acc lies
\* in [0, N) and is i - rot wrapped once, and the sign is -1 exactly when
\* i < rot and +1 otherwise; no access to s_acc (load, rotation read, rotation
\* write, write-back read) or to d_acc (load, write-back) is outside [0, N).
C13_IndexSafety ==
    /\ \A t \in Threads :
          (HasRead(t) /\ rot[t] \in 0 .. (NK - 1)) =>
             /\ src_idx[t] \in Idx
             /\ src_idx[t] = (i[t] - rot[t]) % NK
             /\ sign[t] \in {-1, 1}
             /\ (sign[t] = -1) <=> (i[t] < rot[t])
    /\ \A e \in epoch : e[2] \in Idx
    /\ \A e \in dlog : e[2] \in Idx

\* in one pass of a step with a non-zero rotation amount, one thread has read
\* a wrapped source with sign -1 and another an unwrapped one with sign +1
C13_Witness ==
    \E t \in Threads : \E u \in Threads :
       /\ HasRead(t) /\ HasRead(u)
       /\ rot[t] \in 1 .. (NK - 1)
       /\ i[t] < rot[t] /\ sign[t] = -1 /\ src_idx[t] = i[t] - rot[t] + NK
       /\ i[u] >= rot[u] /\ sign[u] = 1 /\ src_idx[u] = i[u] - rot[u]
       /\ <<t, src_idx[t], "r">> \in epoch

\* ---------------------------------------------------------------------------
\* C14
\* ---------------------------------------------------------------------------

\* the launch has no step, or every step's reduced rotation amount is 0
IdentityLaunch == \A k \in 0 .. (num_nonzero - 1) : StepRot(k) = 0

\* C14: when num_nonzero = 0, or when every step's reduced rotation amount is
\* 0, d_acc after the launch equals d_acc before it.
C14_IdentityCase ==
    (AllDone /\ IdentityLaunch) => (d_acc = acc0)

\* a launch of two steps, both of reduced rotation amount 0, on pairwise
\* distinct coefficients, has returned and left d_acc as it was
C14_Witness ==
    /\ AllDone
    /\ num_nonzero = 2
    /\ IdentityLaunch
    /\ \A t \in Threads : stepsWritten[t] = 2
    /\ acc0 = [j \in Idx |-> j + 1]
    /\ d_acc = acc0

\* ---------------------------------------------------------------------------
\* C15
\* ---------------------------------------------------------------------------

\* the values +v and -v for the elements v of accumulator acc
PlusMinus(acc) == {acc[j] : j \in Idx} \cup {-acc[j] : j \in Idx}

\* the harness's accumulator of all ones, or what earlier launches made of it
OnesLaunch == \A j \in Idx : acc0[j] \in {1, -1}

\* C15: values are only copied or negated.  In every reachable state every
\* element of s_acc that has been loaded, and every element of d_acc, is +v or
\* -v for some element v of the accumulator the launch started from; when that
\* accumulator is all ones (or all +-1, as a previous launch leaves it), every
\* element is 1 or -1 after the launch.
C15_CopiedOrNegated ==
    /\ LET pm == PlusMinus(acc0)
       IN  /\ \A j \in inited : s_acc[j] \in pm
           /\ \A j \in Idx : d_acc[j] \in pm
           /\ (\A t \in Threads : PastLoad(t)) => (\A j \in Idx : s_acc[j] \in pm)
    /\ (AllDone /\ OnesLaunch) => (\A j \in Idx : d_acc[j] \in {1, -1})

\* a launch on the all-ones accumulator has returned after two steps and left
\* both 1 and -1 in d_acc
C15_Witness ==
    /\ AllDone
    /\ num_nonzero = 2
    /\ acc0 = [j \in Idx |-> 1]
    /\ \E j \in Idx : d_acc[j] = -1
    /\ \E j \in Idx : d_acc[j] = 1

\* ---------------------------------------------------------------------------
\* C16
\* ---------------------------------------------------------------------------

\* the threads that have stored to d_acc[j] (line 86)
WritersOf(j) == {t \in Threads : wblog[j][t] > 0}

\* d_acc[j] has been written back
WrittenBack(j) == WritersOf(j) # {}

\* the accumulator in shared memory when the last step was completed
AfterLastStep == IF num_nonzero = 0 THEN acc0 ELSE left[num_nonzero - 1]

\* C16: the kernel never writes d_bk, d_nonzero_indices or d_lwe_a (nor its
\* argument num_nonzero); it reads d_acc only in the initial load, before any
\* barrier, and writes it only in the final write-back, after the closing
\* barrier of the last step, when every thread has completed every step; each
\* d_acc[i] is written exactly once; until it is written d_acc[i] holds its
\* value at launch and afterwards the value s_acc[i] had when the last step was
\* completed, so no intermediate step result is ever visible in d_acc.
C16_GlobalMemoryFrame ==
    /\ <<d_bk, d_nonzero_indices, d_lwe_a, num_nonzero>> = args0
    /\ \A e \in dlog :
          /\ (e[3] = "r") => (e[4] = 0)
          /\ (e[3] = "w") => (e[4] = BarrierCount)
    /\ (\E j \in Idx : WrittenBack(j)) =>
          \A u \in Threads : stepsWritten[u] = num_nonzero /\ pc[u] \in {"loop", "wb", "done"}
    /\ \A j \in Idx :
          /\ Cardinality(WritersOf(j)) <= 1
          /\ \A t \in Threads : wblog[j][t] <= 1
          /\ ~WrittenBack(j) => (d_acc[j] = acc0[j])
          /\ WrittenBack(j) => (d_acc[j] = s_acc[j])
    /\ \A j \in Idx :
          WrittenBack(j) => (d_acc[j] = AfterLastStep[j])
    /\ AllDone => \A j \in Idx : Cardinality(WritersOf(j)) = 1

\* in a launch of two steps that change the accumulator, one element of d_acc
\* has been written back with the final value while another still holds its
\* value at launch, the key and the samples being as they were passed
C16_Witness ==
    /\ num_nonzero = 2
    /\ acc0 = [j \in Idx |-> j + 1]
    /\ \E j \in Idx : WrittenBack(j) /\ d_acc[j] # acc0[j] /\ d_acc[j] = left[1][j]
    /\ \E j \in Idx : ~WrittenBack(j)
    /\ \E e \in dlog : e[3] = "w" /\ e[4] = BarrierCount
    /\ <<d_bk, d_nonzero_indices, d_lwe_a, num_nonzero>> = args0

====
